---------------------------- MODULE Spec2Model ----------------------------
(***************************************************************************)
(* TinyLLM: the retrieval handler (embedding_utils.py, RAGHandler) and the *)
(* chat front end (webui.py: LLMInterface, main_page and its handlers).    *)
(*                                                                         *)
(* Texts are sequences of character codes.  The character at 1-based       *)
(* position i of document d has code d * 10000 + i, so that a chunk shows  *)
(* which document and which offset it was cut from.                        *)
(***************************************************************************)
EXTENDS Integers, Sequences, FiniteSets, TLC

VARIABLES
    chunks,         \* RAGHandler.chunks: list of chunk texts
    index,          \* RAGHandler.index: None or an IndexFlatL2 (its vectors)
    op,             \* the last RAGHandler operation that ran (observation)
    pre,            \* (chunks, index) as they were when that operation began
    results,        \* what the last query returned
    hist,           \* the last two successful builds, and whether the
                    \* second is still the last create_index call
    rag_active,     \* webui.py global rag_active
    is_loaded,      \* LLMInterface.is_loaded
    is_generating,  \* main_page's is_generating, per page
    up,             \* handle_upload invocations and their worker threads
    turn,           \* send_message's position, per page
    qt,             \* the rag.query call a send_message has offloaded
    g,              \* observation of the uploads requested so far
    tokenizer_stream,   \* LLMInterface.tokenizer_stream: the incremental
                        \* decoder's buffered, not yet decoded tokens
    gen,            \* the generator of each page's llm.generate call
    lastEnd,        \* how the last stream that ended did end (observation)
    response_text,  \* send_message's response_text, per page
    notice,         \* the last ui.notify of a chat turn, per page
    prompt,         \* send_message's prompt assembly, per page
    ck,             \* the last _chunk_text call: arguments and result
    cf,             \* the last conversational test: text and verdict
    cl              \* a _chunk_text call in progress: its locals

ragVars == <<chunks, index>>
obsVars == <<op, pre, results, hist>>
genVars == <<tokenizer_stream, gen, lastEnd, response_text, notice>>
fnVars == <<ck, cf, cl>>
uiVars == <<rag_active, is_loaded, is_generating, up, turn, qt, g, genVars,
            prompt, fnVars>>
vars == <<chunks, index, op, pre, results, hist,
          rag_active, is_loaded, is_generating, up, turn, qt, g,
          tokenizer_stream, gen, lastEnd, response_text, notice, prompt,
          ck, cf, cl>>

---------------------------------------------------------------------------
(* Bounds of the model.                                                    *)

NumDocs == 2        \* documents 0 (no text), 1 .. NumDocs
MaxK == 4           \* a query asks for 1 .. MaxK neighbours
MaxNew == 3         \* the engine ends a stream within MaxNew tokens
MaxTextLen == 12    \* _chunk_text is called on texts of 0 .. MaxTextLen
MaxChunkSize == 5   \* ... with chunk_size in 1 .. MaxChunkSize
MaxInputLen == 3    \* the conversational test is made on texts of
                    \* 0 .. MaxInputLen characters (and some samples)

(* Program constants.                                                      *)

DefaultChunkSize == 500
DefaultOverlap == 50
DefaultK == 3
model_context_limit == 4096

---------------------------------------------------------------------------
(* Python helpers.                                                         *)

Min(a, b) == IF a <= b THEN a ELSE b
Max(a, b) == IF a >= b THEN a ELSE b

\* s[start:end] for 0 <= start, 0 <= end (Python clamps both to len(s)).
PySlice(s, start, end) == SubSeq(s, Min(start, Len(s)) + 1, Min(end, Len(s)))

\* s[start:] for any integer start: a negative start counts from the end
\* and is clamped to 0, a start beyond the end gives the empty sequence.
PyFrom(s, start) ==
    LET from == IF start < 0 THEN Max(Len(s) + start, 0) ELSE Min(start, Len(s))
    IN  SubSeq(s, from + 1, Len(s))

---------------------------------------------------------------------------
(* RAGHandler._chunk_text                                                  *)

RECURSIVE ChunkLoop(_, _, _, _, _)
ChunkLoop(text, chunk_size, overlap, start, acc) ==
    IF start < Len(text)
    THEN ChunkLoop(text, chunk_size, overlap, start + chunk_size - overlap,
                   Append(acc, PySlice(text, start, start + chunk_size)))
    ELSE acc

ChunkTextStridingBySize(text, chunk_size, overlap) ==
    ChunkLoop(text, chunk_size, 0, 0, <<>>)

_chunk_text(text, chunk_size, overlap) ==
    ChunkLoop(text, chunk_size, overlap, 0, <<>>)

---------------------------------------------------------------------------
(* Documents, the embedding model and the FAISS flat L2 index.             *)

Docs == 0 .. NumDocs
DocLen(d) == IF d = 0 THEN 0 ELSE 450 * d + 10
DocText(d) == [i \in 1 .. DocLen(d) |-> d * 10000 + i]

\* SentenceTransformer.encode on one text: a deterministic vector, here the
\* pair (document, window ordinal) of the text's first character, which is
\* distinct for distinct chunks of the documents.
Embed(s) == <<s[1] \div 10000, ((s[1] % 10000) - 1) \div 450>>

\* model.encode(list): one vector per text, same order.
Encode(texts) == [i \in 1 .. Len(texts) |-> Embed(texts[i])]

\* self.index: None, or an IndexFlatL2 holding vecs in insertion order.
NoIndex == [isNone |-> TRUE, vecs |-> <<>>]
IndexFlatL2 == [isNone |-> FALSE, vecs |-> <<>>]
IndexAdd(ix, embeddings) == [ix EXCEPT !.vecs = @ \o embeddings]

\* squared Euclidean distance
L2(a, b) == (a[1] - b[1]) * (a[1] - b[1]) + (a[2] - b[2]) * (a[2] - b[2])

\* Is position i strictly better than position j for query vector qv?
Closer(vecs, qv, i, j) ==
    \/ L2(vecs[i], qv) < L2(vecs[j], qv)
    \/ L2(vecs[i], qv) = L2(vecs[j], qv) /\ i < j

RECURSIVE SearchLoop(_, _, _, _, _)
SearchLoop(vecs, qv, k, left, acc) ==
    IF Len(acc) = k THEN acc
    ELSE IF left = {} THEN SearchLoop(vecs, qv, k, left, Append(acc, -1))
    ELSE LET best == CHOOSE i \in left :
                        \A j \in left \ {i} : Closer(vecs, qv, i, j)
         IN  SearchLoop(vecs, qv, k, left \ {best}, Append(acc, best - 1))

\* index.search(query_vector, k)[1][0]: the 0-based positions of the k
\* nearest vectors, nearest first, padded with -1 when fewer are stored.
Search(ix, qv, k) == SearchLoop(ix.vecs, qv, k, 1 .. Len(ix.vecs), <<>>)


---------------------------------------------------------------------------
(* RAGHandler.create_index, reset_index and query, each run to completion. *)

QueryTexts == {<<10001>>, <<20451>>}
FailPoints == {"none", "decode", "encode", "construct", "add"}

\* The text create_index extracts from document d (lines 46-68).
ExtractText(d) == DocText(d)

\* create_index from (ch, ix) on document d.  fail names the statement that
\* raises: "decode" the text extraction, "encode" model.encode, "construct"
\* faiss.IndexFlatL2(dimension), "add" index.add; "none" lets all succeed.
\* Gives the fields as the call leaves them and whether it raised.
CreateIndexCoreMerging(ch, ix, d, fail) ==
    IF fail = "decode" THEN [chunks |-> ch, index |-> ix, raised |-> TRUE]
    ELSE LET new == _chunk_text(ExtractText(d), DefaultChunkSize, DefaultOverlap)
             all == ch \o new
         IN  IF new = <<>> THEN [chunks |-> all, index |-> ix, raised |-> FALSE]
             ELSE IF fail \in {"encode", "construct"}
                  THEN [chunks |-> all, index |-> ix, raised |-> TRUE]
             ELSE IF fail = "add"
                  THEN [chunks |-> all, index |-> IndexFlatL2, raised |-> TRUE]
             ELSE [chunks |-> all,
                   index |-> IndexAdd(IF ix.isNone THEN IndexFlatL2 ELSE ix,
                                      Encode(new)),
                   raised |-> FALSE]

CreateIndexCore(ch, ix, d, fail) ==
    IF fail = "decode" THEN [chunks |-> ch, index |-> ix, raised |-> TRUE]
    ELSE LET new == _chunk_text(ExtractText(d), DefaultChunkSize, DefaultOverlap)
         IN  IF new = <<>> THEN [chunks |-> new, index |-> ix, raised |-> FALSE]
             ELSE IF fail \in {"encode", "construct"}
                  THEN [chunks |-> new, index |-> ix, raised |-> TRUE]
             ELSE IF fail = "add"
                  THEN [chunks |-> new, index |-> IndexFlatL2, raised |-> TRUE]
             ELSE [chunks |-> new,
                   index |-> IndexAdd(IndexFlatL2, Encode(new)),
                   raised |-> FALSE]

\* The loop of query (lines 104-109) over the positions the search gave.
RECURSIVE Materialize(_, _)
Materialize(ch, indices) ==
    IF indices = <<>> THEN <<>>
    ELSE LET idx == Head(indices)
             rest == Materialize(ch, Tail(indices))
         IN  IF idx # -1 /\ idx < Len(ch) THEN <<ch[idx + 1]>> \o rest ELSE rest

\* RAGHandler.query(query_text, k) on the fields (ch, ix).
QueryResults(ch, ix, query_text, k) ==
    IF ix.isNone \/ ch = <<>> THEN <<>>
    ELSE Materialize(ch, Search(ix, Embed(query_text), k))

NoOp == [kind |-> "none", doc |-> -1, outcome |-> "ok", k |-> 0, q |-> <<>>]
NoHist == [T |-> -1, T2 |-> -1, fresh |-> FALSE]

\* The pages, the upload handler invocations that can be in flight at
\* once, and the front end's state before any handler has run.
Pages == {1, 2}
Uploads == {1, 2}
IdleUpload == [pc |-> "idle", doc |-> -1, emb |-> <<>>]
IdleQuery == [pc |-> "idle", text |-> <<>>, indices |-> <<>>, found |-> <<>>,
              i |-> 0, out |-> <<>>, hits |-> <<>>]
NoGen == [n |-> 0, max_tokens |-> 0, input_tokens |-> <<>>, max_length |-> 0,
          new |-> <<>>, eos |-> FALSE, frags |-> <<>>, after |-> "none"]
NoUploads == [lastReq |-> -1, prevReq |-> -1, overlapped |-> FALSE,
              ok |-> FALSE]

\* The prompt send_message is assembling: the stripped user text, whether
\* rag.query was called and what rag_active was when line 250 read it,
\* what the query returned, and full_prompt once it is built.
NoPrompt == [text |-> <<>>, queried |-> FALSE, active |-> FALSE,
             retrieved |-> <<>>, full |-> <<>>]
NoChunkCall == [text |-> <<>>, chunk_size |-> 0, overlap |-> 0, out |-> <<>>]
NoFilterCall == [text |-> <<>>, verdict |-> FALSE]
NoChunkLoop == [pc |-> "idle", text |-> <<>>, chunk_size |-> 0, overlap |-> 0,
                start |-> 0, chunks |-> <<>>]

\* The literal pieces of the prompt template, as character codes.  The
\* special tokens, the header phrase and the system prompt are one code
\* each: -1 <|user|>, -2 <|end|>, -3 <|assistant|>, -4 "Context from
\* knowledge base:", -5 system_prompt.value; 10 is the newline, 45 '-'.
UserTag == <<-1, 10>>
SystemPrompt == <<-5>>
ContextHeader == <<-4, 10>>
Separator == <<10, 45, 45, 45, 10>>
Closing == <<-2, 10, -3, 10>>

\* sep.join(list)
RECURSIVE Join(_, _)
Join(sep, list) ==
    IF list = <<>> THEN <<>>
    ELSE IF Len(list) = 1 THEN list[1]
    ELSE list[1] \o sep \o Join(sep, Tail(list))

ContextStrAlways(retrieved_chunks) ==
    ContextHeader \o Join(Separator, retrieved_chunks) \o <<10, 10>>

\* context_str, lines 243 and 254-255.
ContextStr(retrieved_chunks) ==
    IF retrieved_chunks = <<>> THEN <<>>
    ELSE ContextHeader \o Join(Separator, retrieved_chunks) \o <<10, 10>>

\* full_prompt, line 259.
FullPrompt(context_str, text) ==
    UserTag \o SystemPrompt \o <<10>> \o context_str \o text \o Closing

InitUi ==
    /\ rag_active = FALSE
    /\ is_loaded = FALSE
    /\ is_generating = [p \in Pages |-> FALSE]
    /\ up = [u \in Uploads |-> IdleUpload]
    /\ turn = [p \in Pages |-> "idle"]
    /\ qt = IdleQuery
    /\ g = NoUploads
    /\ tokenizer_stream = <<>>
    /\ gen = [p \in Pages |-> NoGen]
    /\ lastEnd = "none"
    /\ response_text = [p \in Pages |-> <<>>]
    /\ notice = [p \in Pages |-> "none"]
    /\ prompt = [p \in Pages |-> NoPrompt]
    /\ ck = NoChunkCall
    /\ cf = NoFilterCall
    /\ cl = NoChunkLoop

InitObs ==
    /\ op = NoOp
    /\ pre = [chunks |-> <<>>, index |-> NoIndex]
    /\ results = <<>>
    /\ hist = NoHist

InitRag ==
    /\ chunks = <<>>
    /\ index = NoIndex
    /\ InitObs
    /\ InitUi

create_index(d, fail) ==
    LET r == CreateIndexCore(chunks, index, d, fail)
    IN  /\ chunks' = r.chunks
        /\ index' = r.index
        /\ op' = [kind |-> "create_index", doc |-> d,
                  outcome |-> IF r.raised THEN "failed" ELSE "ok", k |-> 0,
                  q |-> <<>>]
        /\ pre' = [chunks |-> chunks, index |-> index]
        /\ results' = <<>>
        /\ hist' = IF r.raised THEN [hist EXCEPT !.fresh = FALSE]
                   ELSE [T |-> hist.T2, T2 |-> d, fresh |-> TRUE]
        /\ UNCHANGED uiVars

reset_index ==
    /\ index' = NoIndex
    /\ chunks' = <<>>
    /\ op' = [kind |-> "reset_index", doc |-> -1, outcome |-> "ok", k |-> 0,
              q |-> <<>>]
    /\ pre' = [chunks |-> chunks, index |-> index]
    /\ results' = <<>>
    /\ hist' = [hist EXCEPT !.fresh = FALSE]
    /\ UNCHANGED uiVars

query(query_text, k) ==
    /\ results' = QueryResults(chunks, index, query_text, k)
    /\ op' = [kind |-> "query", doc |-> -1, outcome |-> "ok", k |-> k,
              q |-> query_text]
    /\ pre' = [chunks |-> chunks, index |-> index]
    /\ UNCHANGED <<chunks, index, hist>>
    /\ UNCHANGED uiVars

NextRag ==
    \/ \E d \in Docs, fail \in FailPoints : create_index(d, fail)
    \/ reset_index
    \/ \E q \in QueryTexts, k \in 1 .. MaxK : query(q, k)

SpecRag == InitRag /\ [][NextRag]_vars

---------------------------------------------------------------------------
(* Properties of the retrieval handler, operations run one at a time.      *)

Range(s) == {s[i] : i \in 1 .. Len(s)}
ChunksOf(d) == _chunk_text(ExtractText(d), DefaultChunkSize, DefaultOverlap)

\* (ch, ix) is a fully built corpus: one vector per chunk, in chunk order.
Populated(ch, ix) ==
    /\ ~ix.isNone
    /\ ch # <<>>
    /\ Len(ch) = Len(ix.vecs)
    /\ \A i \in 1 .. Len(ch) : ix.vecs[i] = Embed(ch[i])

EmptyCorpus(ch, ix) == ix.isNone /\ ch = <<>>

\* C1: a create_index that raises while a corpus built earlier is active
\* leaves chunks and index exactly as they were, and every query answers
\* as it did before the call.
C1_FailedBuildKeepsCorpus ==
    (/\ op.kind = "create_index"
     /\ op.outcome = "failed"
     /\ Populated(pre.chunks, pre.index))
    => /\ chunks = pre.chunks
       /\ index = pre.index
       /\ \A q \in QueryTexts, k \in 1 .. MaxK :
             QueryResults(chunks, index, q, k)
                = QueryResults(pre.chunks, pre.index, q, k)

\* C2: between operations the corpus is either empty (no index, no chunks)
\* or fully populated (as many vectors as chunks, vector i that of chunk i).
C2_EmptyOrPopulated ==
    EmptyCorpus(chunks, index) \/ Populated(chunks, index)

\* C5: once create_index on T and then on T2 have both returned normally,
\* a query on that corpus returns chunks of T2 only and no chunk of T.
C5_OnlyNewChunksRetrieved ==
    (/\ op.kind = "query"
     /\ hist.fresh
     /\ hist.T # -1
     /\ hist.T # hist.T2)
    => \A i \in 1 .. Len(results) :
          /\ results[i] \in Range(ChunksOf(hist.T2))
          /\ results[i] \notin Range(ChunksOf(hist.T))

\* C5's case: T and T2 both have text, and the query returned something.
C5_Witness ==
    /\ op.kind = "query"
    /\ hist.fresh
    /\ hist.T > 0
    /\ hist.T2 > 0
    /\ hist.T # hist.T2
    /\ results # <<>>

\* C6: create_index on empty text leaves the empty corpus (no chunks and
\* no index) whatever the corpus was before, and a query made while no
\* corpus is active returns the empty sequence.
C6_EmptyTextGivesEmptyCorpus ==
    /\ (op.kind = "create_index" /\ op.doc = 0 /\ op.outcome = "ok")
          => EmptyCorpus(chunks, index)
    /\ (op.kind = "query" /\ (pre.index.isNone \/ pre.chunks = <<>>))
          => results = <<>>

\* The query just made ran on an active corpus: an index and some chunks.
QueriedActive ==
    /\ op.kind = "query"
    /\ ~pre.index.isNone
    /\ pre.chunks # <<>>

\* C13: on an active corpus of n chunks query(text, k) returns exactly
\* min(k, n) texts, each the chunk of the corpus at a position the search
\* returned; positions outside 0 .. n-1 (the -1 filler) are dropped.
C13_QueryReturnsMinKN ==
    QueriedActive =>
       LET indices == Search(pre.index, Embed(op.q), op.k)
           valid == {j \in 1 .. Len(indices) :
                        indices[j] >= 0 /\ indices[j] < Len(pre.chunks)}
       IN  /\ Len(results) = Min(op.k, Len(pre.chunks))
           /\ Len(results) = Cardinality(valid)
           /\ \A i \in 1 .. Len(results) :
                 \E j \in valid : results[i] = pre.chunks[indices[j] + 1]

\* The position in the corpus of a returned text.
Ordinal(ch, c) == CHOOSE i \in 1 .. Len(ch) : ch[i] = c

\* C14: the texts a query returns are in order of non-decreasing squared
\* distance between their vectors and the query vector, equal distances in
\* order of chunk position; when the query vector is one of the stored
\* vectors, the first text returned is the chunk with that vector.
C14_OrderedByDistance ==
    QueriedActive =>
       LET qv == Embed(op.q)
           d(c) == L2(Embed(c), qv)
       IN  /\ \A i, j \in 1 .. Len(results) :
                 i < j =>
                    /\ d(results[i]) <= d(results[j])
                    /\ d(results[i]) = d(results[j])
                          => Ordinal(pre.chunks, results[i])
                                < Ordinal(pre.chunks, results[j])
           /\ (\E v \in Range(pre.index.vecs) : v = qv)
                 => /\ results # <<>>
                    /\ Embed(results[1]) = qv

---------------------------------------------------------------------------
(* The conversational filter of send_message (lines 246-248).  User texts  *)
(* are sequences of character codes (ASCII for letters and punctuation).   *)

Whitespace == {9, 10, 11, 12, 13, 32}
TrailPunct == {33, 46, 44, 63}          \* the characters of '!.,?'

Lower(c) == IF c \in 65 .. 90 THEN c + 32 ELSE c
LowerAll(s) == [i \in 1 .. Len(s) |-> Lower(s[i])]

\* str.strip(chars): drops the characters of cs from both ends.
RECURSIVE LStrip(_, _)
LStrip(s, cs) ==
    IF s # <<>> /\ Head(s) \in cs THEN LStrip(Tail(s), cs) ELSE s
RECURSIVE RStrip(_, _)
RStrip(s, cs) ==
    IF s # <<>> /\ s[Len(s)] \in cs THEN RStrip(SubSeq(s, 1, Len(s) - 1), cs)
    ELSE s
Strip(s, cs) == RStrip(LStrip(s, cs), cs)

conversational_triggers ==
    { <<104, 105>>,                                         \* hi
      <<104, 101, 108, 108, 111>>,                          \* hello
      <<104, 101, 121>>,                                    \* hey
      <<116, 104, 97, 110, 107, 115>>,                      \* thanks
      <<116, 104, 97, 110, 107, 32, 121, 111, 117>>,        \* thank you
      <<98, 121, 101>>,                                     \* bye
      <<103, 111, 111, 100, 98, 121, 101>>,                 \* goodbye
      <<111, 107>>,                                         \* ok
      <<111, 107, 97, 121>> }                               \* okay

is_conversational(text) ==
    Strip(Strip(LowerAll(text), Whitespace), TrailPunct)
        \in conversational_triggers

---------------------------------------------------------------------------
(* The front end's handlers around the retrieval handler.  A handler runs  *)
(* on the event loop up to its next await; rag.create_index and rag.query  *)
(* run in worker threads (run.io_bound), one step per access to            *)
(* self.chunks or self.index.                                              *)

ConcPages == {1}
ConcDocs == {0, 1, 2}
UserTexts == {<<10001>>, <<32, 72, 105, 33>>, <<63, 104, 105>>}
                                                \* ..., " Hi!", "?hi"

Busy(u) == up[u].pc \notin {"idle"}
InBuild(u) == up[u].pc \in {"chunk", "check", "encode", "construct", "add"}

\* load_model_task: llm.load_model sets is_loaded once.
load_model_task ==
    /\ ~is_loaded
    /\ is_loaded' = TRUE
    /\ tokenizer_stream' = <<>>
    /\ UNCHANGED <<chunks, index, obsVars, fnVars, prompt, rag_active,
                   is_generating, up, turn, qt, g, gen, lastEnd,
                   response_text, notice>>

\* handle_upload up to its await: the build of document d is handed to a
\* worker thread.  u is the first free invocation slot.  g notes the
\* document, the document requested before it, whether another upload was
\* still in flight, and whether all uploads in flight together have text
\* and have not raised.
handle_upload(u, d) ==
    /\ up[u].pc = "idle"
    /\ \A v \in Uploads : v < u => Busy(v)
    /\ up' = [up EXCEPT ![u] = [pc |-> "chunk", doc |-> d, emb |-> <<>>]]
    /\ LET others == \E v \in Uploads \ {u} : Busy(v)
       IN  g' = [lastReq |-> d,
                 prevReq |-> g.lastReq,
                 overlapped |-> others,
                 ok |-> d # 0 /\ (others => g.ok)]
    /\ UNCHANGED <<chunks, index, obsVars, fnVars, prompt, genVars, rag_active, is_loaded,
                   is_generating, turn, qt>>

\* create_index, lines 44-71: extract the text (which may raise), then
\* self.chunks = self._chunk_text(text).
CreateIndexChunk(u, fail) ==
    /\ up[u].pc = "chunk"
    /\ IF fail
       THEN /\ up' = [up EXCEPT ![u].pc = "raised"]
            /\ UNCHANGED chunks
       ELSE /\ chunks' = _chunk_text(ExtractText(up[u].doc),
                                     DefaultChunkSize, DefaultOverlap)
            /\ up' = [up EXCEPT ![u].pc = "check"]
    /\ UNCHANGED <<index, obsVars, fnVars, prompt, genVars, rag_active, is_loaded, is_generating,
                   turn, qt, g>>

\* create_index, lines 73-75: if not self.chunks: return
CreateIndexCheck(u) ==
    /\ up[u].pc = "check"
    /\ up' = [up EXCEPT ![u].pc = IF chunks = <<>> THEN "returned"
                                                   ELSE "encode"]
    /\ UNCHANGED <<chunks, index, obsVars, fnVars, prompt, genVars, rag_active, is_loaded,
                   is_generating, turn, qt, g>>

\* create_index, lines 77-81: embeddings = self.model.encode(self.chunks);
\* embeddings.shape[1] raises on the empty list.
CreateIndexEncode(u, fail) ==
    /\ up[u].pc = "encode"
    /\ IF fail \/ chunks = <<>>
       THEN up' = [up EXCEPT ![u].pc = "raised"]
       ELSE up' = [up EXCEPT ![u].pc = "construct", ![u].emb = Encode(chunks)]
    /\ UNCHANGED <<chunks, index, obsVars, fnVars, prompt, genVars, rag_active, is_loaded,
                   is_generating, turn, qt, g>>

\* create_index, line 82: self.index = faiss.IndexFlatL2(dimension)
CreateIndexConstruct(u) ==
    /\ up[u].pc = "construct"
    /\ index' = IndexFlatL2
    /\ up' = [up EXCEPT ![u].pc = "add"]
    /\ UNCHANGED <<chunks, obsVars, fnVars, prompt, genVars, rag_active, is_loaded, is_generating,
                   turn, qt, g>>

\* create_index, line 83: self.index.add(embeddings), on whatever
\* self.index is by now (None raises).
CreateIndexAdd(u) ==
    /\ up[u].pc = "add"
    /\ IF index.isNone
       THEN /\ up' = [up EXCEPT ![u].pc = "raised"]
            /\ UNCHANGED index
       ELSE /\ index' = IndexAdd(index, up[u].emb)
            /\ up' = [up EXCEPT ![u].pc = "returned"]
    /\ UNCHANGED <<chunks, obsVars, fnVars, prompt, genVars, rag_active, is_loaded, is_generating,
                   turn, qt, g>>

\* handle_upload after the await, lines 146-153.
UploadDone(u) ==
    /\ up[u].pc = "returned"
    /\ rag_active' = TRUE
    /\ up' = [up EXCEPT ![u] = IdleUpload]
    /\ UNCHANGED <<chunks, index, obsVars, fnVars, prompt, genVars, is_loaded, is_generating, turn,
                   qt, g>>

\* handle_upload when create_index raised, lines 152-156.
UploadFailed(u) ==
    /\ up[u].pc = "raised"
    /\ up' = [up EXCEPT ![u] = IdleUpload]
    /\ g' = [g EXCEPT !.ok = FALSE]
    /\ UNCHANGED <<chunks, index, obsVars, fnVars, prompt, genVars, rag_active, is_loaded,
                   is_generating, turn, qt>>

\* clear_doc, lines 160-171 (rag.reset_index and rag_active = False).
clear_doc ==
    /\ index' = NoIndex
    /\ chunks' = <<>>
    /\ rag_active' = FALSE
    /\ g' = NoUploads
    /\ UNCHANGED <<obsVars, fnVars, prompt, genVars, is_loaded, is_generating, up, turn, qt>>

\* send_message up to its first await, lines 220-253.
send_message(p, input) ==
    LET text == Strip(input, Whitespace)
    IN  /\ text # <<>>
        /\ ~is_generating[p]
        /\ is_loaded
        /\ is_generating' = [is_generating EXCEPT ![p] = TRUE]
        /\ notice' = [notice EXCEPT ![p] = "none"]
        /\ IF rag_active /\ ~is_conversational(text)
           THEN /\ turn' = [turn EXCEPT ![p] = "retrieving"]
                /\ qt' = [IdleQuery EXCEPT !.pc = "check", !.text = text]
                /\ prompt' = [prompt EXCEPT ![p] =
                                [NoPrompt EXCEPT !.text = text,
                                                 !.queried = TRUE,
                                                 !.active = rag_active]]
           ELSE /\ turn' = [turn EXCEPT ![p] = "generating"]
                /\ UNCHANGED qt
                /\ prompt' = [prompt EXCEPT ![p] =
                                [NoPrompt EXCEPT
                                    !.text = text,
                                    !.active = rag_active,
                                    !.full = FullPrompt(ContextStr(<<>>), text)]]
        /\ UNCHANGED <<chunks, index, obsVars, fnVars, tokenizer_stream, gen,
                       lastEnd, response_text, rag_active, is_loaded, up, g>>

\* query, lines 95-96.
QueryCheck ==
    /\ qt.pc = "check"
    /\ qt' = [qt EXCEPT !.pc = IF index.isNone \/ chunks = <<>>
                                THEN "returned" ELSE "search"]
    /\ UNCHANGED <<chunks, index, obsVars, fnVars, prompt, genVars, rag_active, is_loaded,
                   is_generating, up, turn, g>>

\* query, lines 99-102: self.index.search(...) on whatever self.index is
\* by now (None raises).  found keeps the vector matched at each position.
QuerySearch ==
    /\ qt.pc = "search"
    /\ IF index.isNone
       THEN qt' = [qt EXCEPT !.pc = "raised"]
       ELSE LET ids == Search(index, Embed(qt.text), DefaultK)
            IN  qt' = [qt EXCEPT
                         !.pc = "loop",
                         !.indices = ids,
                         !.found = [j \in 1 .. Len(ids) |->
                                      IF ids[j] = -1 THEN <<>>
                                      ELSE index.vecs[ids[j] + 1]],
                         !.i = 1]
    /\ UNCHANGED <<chunks, index, obsVars, fnVars, prompt, genVars, rag_active, is_loaded,
                   is_generating, up, turn, g>>

\* query, lines 105-109: one iteration of the loop over indices[0], and
\* the return after the last one.
QueryLoop ==
    /\ qt.pc = "loop"
    /\ LET idx == qt.indices[qt.i]
           take == idx # -1 /\ idx < Len(chunks)
       IN  qt' = [qt EXCEPT
                    !.out = IF take THEN Append(@, chunks[idx + 1]) ELSE @,
                    !.hits = IF take THEN Append(@, qt.found[qt.i]) ELSE @,
                    !.i = @ + 1,
                    !.pc = IF qt.i = Len(qt.indices) THEN "returned"
                                                      ELSE "loop"]
    /\ UNCHANGED <<chunks, index, obsVars, fnVars, prompt, genVars, rag_active, is_loaded,
                   is_generating, up, turn, g>>

\* send_message after rag.query returned, lines 254-270.
RetrievalDone(p) ==
    /\ turn[p] = "retrieving"
    /\ qt.pc = "returned"
    /\ turn' = [turn EXCEPT ![p] = "generating"]
    /\ prompt' = [prompt EXCEPT
                    ![p].retrieved = qt.out,
                    ![p].full = FullPrompt(ContextStr(qt.out), prompt[p].text)]
    /\ qt' = IdleQuery
    /\ UNCHANGED <<chunks, index, obsVars, fnVars, genVars, rag_active,
                   is_loaded, is_generating, up, g>>

\* send_message when rag.query raised: the await at line 253 is outside
\* the try, the handler ends there.
RetrievalRaised(p) ==
    /\ turn[p] = "retrieving"
    /\ qt.pc = "raised"
    /\ turn' = [turn EXCEPT ![p] = "dead"]
    /\ prompt' = [prompt EXCEPT ![p] = NoPrompt]
    /\ qt' = IdleQuery
    /\ UNCHANGED <<chunks, index, obsVars, fnVars, genVars, rag_active,
                   is_loaded, is_generating, up, g>>

\* send_message, lines 272-290: the generation of the turn, to its end.
GenerateTurn(p) ==
    /\ turn[p] = "generating"
    /\ turn' = [turn EXCEPT ![p] = "idle"]
    /\ is_generating' = [is_generating EXCEPT ![p] = FALSE]
    /\ prompt' = [prompt EXCEPT ![p] = NoPrompt]
    /\ UNCHANGED <<chunks, index, obsVars, fnVars, genVars, rag_active,
                   is_loaded, up, qt, g>>

InitConc ==
    /\ chunks = <<>>
    /\ index = NoIndex
    /\ InitObs
    /\ InitUi

\* One client: a chat page and one upload at a time.
NextConc ==
    \/ load_model_task
    \/ \E d \in ConcDocs : handle_upload(1, d)
    \/ \E fail \in BOOLEAN : CreateIndexChunk(1, fail)
    \/ CreateIndexCheck(1)
    \/ \E fail \in BOOLEAN : CreateIndexEncode(1, fail)
    \/ CreateIndexConstruct(1)
    \/ CreateIndexAdd(1)
    \/ UploadDone(1)
    \/ UploadFailed(1)
    \/ clear_doc
    \/ \E p \in ConcPages, input \in UserTexts : send_message(p, input)
    \/ QueryCheck
    \/ QuerySearch
    \/ QueryLoop
    \/ \E p \in ConcPages : RetrievalDone(p)
    \/ \E p \in ConcPages : RetrievalRaised(p)
    \/ \E p \in ConcPages : GenerateTurn(p)

SpecConc == InitConc /\ [][NextConc]_vars

\* Uploads from several clients (or one client that dismisses the indexing
\* dialog), without chat turns.
NextUploads ==
    \/ \E u \in Uploads, d \in ConcDocs : handle_upload(u, d)
    \/ \E u \in Uploads, fail \in BOOLEAN : CreateIndexChunk(u, fail)
    \/ \E u \in Uploads : CreateIndexCheck(u)
    \/ \E u \in Uploads, fail \in BOOLEAN : CreateIndexEncode(u, fail)
    \/ \E u \in Uploads : CreateIndexConstruct(u)
    \/ \E u \in Uploads : CreateIndexAdd(u)
    \/ \E u \in Uploads : UploadDone(u)
    \/ \E u \in Uploads : UploadFailed(u)
    \/ clear_doc

SpecUploads == InitConc /\ [][NextUploads]_vars

---------------------------------------------------------------------------
(* Properties of the handlers running concurrently.                        *)

\* C3: a query running beside a build reads a whole corpus, the previous
\* one or the new one: every text it returns (read from self.chunks in its
\* loop) is the chunk whose vector was matched (in the self.index it
\* searched).
C3_QuerySeesWholeCorpus ==
    \A i \in 1 .. Len(qt.out) : Embed(qt.out[i]) = qt.hits[i]

\* C4: when an upload was requested while the build of the previous one
\* was still running, and both handlers have finished without raising, the
\* corpus is the later document's chunks with the index built from them.
C4_LastUploadWins ==
    (/\ \A u \in Uploads : up[u].pc = "idle"
     /\ g.overlapped
     /\ g.prevReq # g.lastReq
     /\ g.ok)
    => /\ chunks = ChunksOf(g.lastReq)
       /\ Populated(chunks, index)

\* C17: from a clear until the next upload is requested the corpus is
\* empty and RAG inactive: no build requested before the clear brings a
\* corpus back, so no chat turn in between retrieves anything.
C17_ClearedStaysEmpty ==
    g.lastReq = -1 =>
       /\ EmptyCorpus(chunks, index)
       /\ ~rag_active
       /\ \A p \in Pages : ~prompt[p].queried

\* The conversational test as the design words it: trim whitespace, drop
\* trailing '!', '.', ',', '?', lower-case, look up in the fixed set.
DesignConversational(text) ==
    LowerAll(RStrip(Strip(text, Whitespace), TrailPunct))
        \in conversational_triggers

\* The context block for the chunks retrieved, built chunk by chunk.
RECURSIVE BlockBody(_, _)
BlockBody(retrieved, i) ==
    IF i > Len(retrieved) THEN <<>>
    ELSE (IF i > 1 THEN <<10, 45, 45, 45, 10>> ELSE <<>>)
            \o retrieved[i] \o BlockBody(retrieved, i + 1)

\* C20: a chat turn calls rag.query only when RAG is active and the text
\* is not conversational; the prompt of a turn whose text is
\* conversational, or made with RAG inactive, or whose retrieval returned
\* nothing, has no context block; otherwise the block is the header, the
\* retrieved chunks in order joined by the --- separator, and it stands
\* between the system instruction and the user text.
C20_ContextOnlyWhenRetrieved ==
    \A p \in Pages :
       LET pr == prompt[p]
       IN  /\ pr.queried => pr.active /\ ~DesignConversational(pr.text)
           /\ turn[p] = "generating" =>
                 /\ (\/ DesignConversational(pr.text)
                     \/ ~pr.active
                     \/ pr.retrieved = <<>>)
                       => /\ -4 \notin Range(pr.full)
                          /\ pr.full = <<-1, 10, -5, 10>> \o pr.text
                                          \o <<-2, 10, -3, 10>>
                 /\ pr.retrieved # <<>>
                       => pr.full = <<-1, 10, -5, 10>>
                                       \o <<-4, 10>>
                                       \o BlockBody(pr.retrieved, 1)
                                       \o <<10, 10>>
                                       \o pr.text
                                       \o <<-2, 10, -3, 10>>

\* C20's case: a turn whose retrieval returned several chunks.
C20_Witness ==
    /\ turn[1] = "generating"
    /\ prompt[1].queried
    /\ Len(prompt[1].retrieved) >= 2

\* C21: is_generating is true only while the page's send_message turn is
\* in progress: every turn that set it sets it back, whatever happened
\* in retrieval or generation.
C21_GeneratingOnlyDuringTurn ==
    \A p \in Pages :
       is_generating[p] =>
          turn[p] \in {"retrieving", "generating", "streaming", "except"}

\* C22: between handler executions rag_active is true only if the corpus
\* is active (an index and some chunks), and false when it is empty.
C22_ActiveFlagMeansCorpus ==
    (\A u \in Uploads : up[u].pc = "idle")
       => (rag_active => ~index.isNone /\ chunks # <<>>)

---------------------------------------------------------------------------
(* LLMInterface.generate: the tokenizer, the engine and the incremental    *)
(* decoder.  A prompt is known by its token count n; its tokens are        *)
(* 1 .. n in order.  The engine's new tokens are "a" (a whole character),  *)
(* "lead" and "cont" (the two halves of a two-token character) and "eos".  *)

Tokens == {"a", "lead", "cont", "eos"}
PromptLens == {5, 4000, 4094, 4095, 4096, 4097, 5000}
ChatPromptLens == {5}
MaxTokenChoices == {10, 500, 2048}      \* the slider: min, default, max
ChatMaxTokenChoices == {10}

\* self.tokenizer.encode(prompt)
TokEncode(n) == [i \in 1 .. n |-> i]

\* _prepare_generator: the tokens appended to the generator and the
\* max_length it is given.
PrepareGeneratorNoCap(input_tokens, max_tokens) ==
    LET input_len == Len(input_tokens)
        total_max_length == input_len + max_tokens
    IN  IF input_len >= model_context_limit
        THEN [input_tokens |->
                  PyFrom(input_tokens, (-model_context_limit) + max_tokens),
              max_length |-> model_context_limit]
        ELSE [input_tokens |-> input_tokens, max_length |-> total_max_length]

PrepareGeneratorStrict(input_tokens, max_tokens) ==
    LET input_len == Len(input_tokens)
        total_max_length == Min(input_len + max_tokens, model_context_limit)
    IN  IF input_len > model_context_limit
        THEN [input_tokens |->
                  PyFrom(input_tokens, (-model_context_limit) + max_tokens),
              max_length |-> model_context_limit]
        ELSE [input_tokens |-> input_tokens, max_length |-> total_max_length]

PrepareGenerator(input_tokens, max_tokens) ==
    LET input_len == Len(input_tokens)
        total_max_length == Min(input_len + max_tokens, model_context_limit)
    IN  IF input_len >= model_context_limit
        THEN [input_tokens |->
                  PyFrom(input_tokens, (-model_context_limit) + max_tokens),
              max_length |-> model_context_limit]
        ELSE [input_tokens |-> input_tokens, max_length |-> total_max_length]

IsDoneOnEosOnly(gn) == gn.eos

\* generator.is_done(): end of sequence, or max_length tokens in total.
IsDone(gn) ==
    gn.eos \/ Len(gn.input_tokens) + Len(gn.new) >= gn.max_length

\* tokenizer_stream.decode(new_token) with buf buffered: the text it
\* returns and what it keeps buffered.  A "lead" waits for its "cont";
\* a half that cannot be completed comes out as "?".
Decode(buf, tok) ==
    IF buf = <<>>
    THEN CASE tok = "a"    -> [out |-> <<"a">>, buf |-> <<>>]
           [] tok = "lead" -> [out |-> <<>>, buf |-> <<"lead">>]
           [] tok = "cont" -> [out |-> <<"?">>, buf |-> <<>>]
           [] OTHER        -> [out |-> <<>>, buf |-> <<>>]
    ELSE CASE tok = "a"    -> [out |-> <<"?", "a">>, buf |-> <<>>]
           [] tok = "lead" -> [out |-> <<"?">>, buf |-> <<"lead">>]
           [] tok = "cont" -> [out |-> <<"e'">>, buf |-> <<>>]
           [] OTHER        -> [out |-> <<>>, buf |-> buf]

\* The fragments a decoder starting from buf gives for the tokens toks.
RECURSIVE DecodeAll(_, _)
DecodeAll(buf, toks) ==
    IF toks = <<>> THEN <<>>
    ELSE LET d == Decode(buf, Head(toks))
         IN  <<d.out>> \o DecodeAll(d.buf, Tail(toks))

\* send_message, line 275, and generate, lines 41-68: the prompt (of n
\* tokens) is encoded and the generator prepared.
generate(p, n, max_tokens) ==
    /\ turn[p] = "generating"
    /\ LET prep == PrepareGenerator(TokEncode(n), max_tokens)
       IN  gen' = [gen EXCEPT ![p] =
                     [n |-> n, max_tokens |-> max_tokens,
                      input_tokens |-> prep.input_tokens,
                      max_length |-> prep.max_length,
                      new |-> <<>>, eos |-> FALSE, frags |-> <<>>,
                      after |-> lastEnd]]
    /\ turn' = [turn EXCEPT ![p] = "streaming"]
    /\ prompt' = [prompt EXCEPT ![p] = NoPrompt]
    /\ response_text' = [response_text EXCEPT ![p] = <<>>]
    /\ UNCHANGED <<chunks, index, obsVars, fnVars, rag_active, is_loaded,
                   is_generating, up, qt, g, tokenizer_stream, lastEnd,
                   notice>>

\* generate, lines 70-76, and the loop body of send_message, lines
\* 276-284: one more token, decoded and yielded.
generate_next_token(p, tok) ==
    /\ turn[p] = "streaming"
    /\ ~IsDone(gen[p])
    /\ Len(gen[p].new) + 1 >= MaxNew => tok = "eos"
    /\ LET d == Decode(tokenizer_stream, tok)
       IN  /\ tokenizer_stream' = d.buf
           /\ gen' = [gen EXCEPT ![p].new = Append(@, tok),
                                 ![p].eos = (tok = "eos"),
                                 ![p].frags = Append(@, d.out)]
           /\ response_text' = [response_text EXCEPT ![p] = @ \o d.out]
    /\ UNCHANGED <<chunks, index, obsVars, fnVars, prompt, rag_active,
                   is_loaded, is_generating, up, turn, qt, g, lastEnd,
                   notice>>

\* generate's loop ends (is_done); send_message, lines 289-290.
stream_end(p) ==
    /\ turn[p] = "streaming"
    /\ IsDone(gen[p])
    /\ turn' = [turn EXCEPT ![p] = "idle"]
    /\ is_generating' = [is_generating EXCEPT ![p] = FALSE]
    /\ gen' = [gen EXCEPT ![p] = NoGen]
    /\ lastEnd' = "completed"
    /\ response_text' = [response_text EXCEPT ![p] = <<>>]
    /\ UNCHANGED <<chunks, index, obsVars, fnVars, prompt, rag_active,
                   is_loaded, up, qt, g, tokenizer_stream, notice>>

\* The loop body of send_message raises after a fragment (the page's
\* elements are gone): the stream is dropped unfinished; lines 286-290.
abandon(p) ==
    /\ turn[p] = "streaming"
    /\ ~IsDone(gen[p])
    /\ gen[p].frags # <<>>
    /\ turn' = [turn EXCEPT ![p] = "idle"]
    /\ is_generating' = [is_generating EXCEPT ![p] = FALSE]
    /\ gen' = [gen EXCEPT ![p] = NoGen]
    /\ lastEnd' = "abandoned"
    /\ response_text' = [response_text EXCEPT ![p] = <<>>]
    /\ notice' = [notice EXCEPT ![p] = "error"]
    /\ UNCHANGED <<chunks, index, obsVars, fnVars, prompt, rag_active,
                   is_loaded, up, qt, g, tokenizer_stream>>

engine_errorDroppingText(p) ==
    /\ turn[p] = "streaming"
    /\ ~IsDone(gen[p])
    /\ turn' = [turn EXCEPT ![p] = "except"]
    /\ response_text' = [response_text EXCEPT ![p] = <<>>]
    /\ UNCHANGED <<chunks, index, obsVars, fnVars, prompt, rag_active,
                   is_loaded, is_generating, up, qt, g, tokenizer_stream,
                   gen, lastEnd, notice>>

\* generator.generate_next_token (line 72) or the generator's preparation
\* raises: the exception leaves generate and reaches send_message's
\* except clause with response_text as it is.
engine_error(p) ==
    /\ turn[p] = "streaming"
    /\ ~IsDone(gen[p])
    /\ turn' = [turn EXCEPT ![p] = "except"]
    /\ UNCHANGED <<chunks, index, obsVars, fnVars, prompt, rag_active,
                   is_loaded, is_generating, up, qt, g, genVars>>

\* send_message, lines 286-290: the except clause notifies the error, then
\* is_generating = False and the handler returns.
generation_failed(p) ==
    /\ turn[p] = "except"
    /\ notice' = [notice EXCEPT ![p] = "error"]
    /\ is_generating' = [is_generating EXCEPT ![p] = FALSE]
    /\ turn' = [turn EXCEPT ![p] = "idle"]
    /\ gen' = [gen EXCEPT ![p] = NoGen]
    /\ response_text' = [response_text EXCEPT ![p] = <<>>]
    /\ lastEnd' = "error"
    /\ UNCHANGED <<chunks, index, obsVars, fnVars, prompt, rag_active,
                   is_loaded, up, qt, g, tokenizer_stream>>

\* One page; prompts of every length around the context limit.
NextGenerate ==
    \/ load_model_task
    \/ \E input \in UserTexts : send_message(1, input)
    \/ \E n \in PromptLens, mt \in MaxTokenChoices : generate(1, n, mt)
    \/ \E tok \in Tokens : generate_next_token(1, tok)
    \/ stream_end(1)
    \/ abandon(1)
    \/ engine_error(1)
    \/ generation_failed(1)

SpecGenerate == InitConc /\ [][NextGenerate]_vars

\* The event loop resumes the coroutine after every await, and every call
\* into the engine returns.
SpecGenerateFair ==
    /\ SpecGenerate
    /\ WF_vars(\E tok \in Tokens : generate_next_token(1, tok))
    /\ WF_vars(stream_end(1))
    /\ WF_vars(generation_failed(1))

\* Several pages (clients) on the one LLMInterface; short prompts.
NextChat ==
    \/ load_model_task
    \/ \E p \in Pages, input \in UserTexts : send_message(p, input)
    \/ \E p \in Pages, n \in ChatPromptLens, mt \in ChatMaxTokenChoices :
          generate(p, n, mt)
    \/ \E p \in Pages, tok \in Tokens : generate_next_token(p, tok)
    \/ \E p \in Pages : stream_end(p)
    \/ \E p \in Pages : abandon(p)
    \/ \E p \in Pages : engine_error(p)
    \/ \E p \in Pages : generation_failed(p)

SpecChat == InitConc /\ [][NextChat]_vars

---------------------------------------------------------------------------
(* Properties of generation.                                               *)

Streaming(p) == turn[p] = "streaming"

\* C7: the tokens handed to the engine plus max_tokens never exceed the
\* context limit.
C7_InputPlusNewWithinLimit ==
    \A p \in Pages :
       Streaming(p) =>
          Len(gen[p].input_tokens) + gen[p].max_tokens <= model_context_limit

\* C7 as amended: the tokens handed to the engine plus the tokens it has
\* generated never exceed max_length, which never exceeds the context
\* limit; input tokens plus max_tokens are within the limit when the
\* prompt was truncated or was short enough to leave room for max_tokens.
C7_TotalWithinLimit ==
    \A p \in Pages :
       Streaming(p) =>
          /\ Len(gen[p].input_tokens) + Len(gen[p].new) <= gen[p].max_length
          /\ gen[p].max_length <= model_context_limit
          /\ (\/ gen[p].n >= model_context_limit
              \/ gen[p].n + gen[p].max_tokens <= model_context_limit)
                => Len(gen[p].input_tokens) + gen[p].max_tokens
                      <= model_context_limit

\* C7's case: a prompt just under the limit, not truncated, whose stream
\* has used up what the limit leaves, less than max_tokens.
C7_Witness ==
    /\ Streaming(1)
    /\ gen[1].n < model_context_limit
    /\ gen[1].n + gen[1].max_tokens > model_context_limit
    /\ gen[1].new # <<>>
    /\ Len(gen[1].input_tokens) + Len(gen[1].new) = model_context_limit

\* C8: a prompt of at least model_context_limit tokens reaches the engine
\* as its trailing model_context_limit - max_tokens tokens, in order, with
\* max_length = model_context_limit; a shorter prompt reaches it whole,
\* with max_length = min(its length + max_tokens, model_context_limit).
C8_TruncationKeepsTrailingTokens ==
    \A p \in Pages :
       Streaming(p) =>
          LET n == gen[p].n
              keep == model_context_limit - gen[p].max_tokens
          IN  IF n >= model_context_limit
              THEN /\ gen[p].input_tokens = [i \in 1 .. keep |-> n - keep + i]
                   /\ gen[p].max_length = model_context_limit
                   /\ Len(gen[p].input_tokens) + gen[p].max_tokens
                         = model_context_limit
              ELSE /\ gen[p].input_tokens = [i \in 1 .. n |-> i]
                   /\ gen[p].max_length
                         = IF n + gen[p].max_tokens < model_context_limit
                           THEN n + gen[p].max_tokens
                           ELSE model_context_limit

\* C8's case: 5000 tokens in, 500 asked for, the last 3596 handed over.
C8_Witness ==
    /\ Streaming(1)
    /\ gen[1].n = 5000
    /\ gen[1].max_tokens = 500
    /\ Len(gen[1].input_tokens) = 3596
    /\ gen[1].input_tokens[1] = 1405

\* C9: a stream started after an abandoned one yields the fragments a
\* fresh decoder gives for its own tokens.
C9_AbandonedStreamLeavesNoTrace ==
    \A p \in Pages :
       (Streaming(p) /\ gen[p].after = "abandoned")
          => gen[p].frags = DecodeAll(<<>>, gen[p].new)

\* The fragments yielded so far, as send_message accumulates them.
RECURSIVE Flatten(_)
Flatten(frags) ==
    IF frags = <<>> THEN <<>> ELSE Head(frags) \o Flatten(Tail(frags))

\* C15: when the engine raises in mid-stream the stream ends there, the
\* response accumulated so far is still all the fragments yielded, the
\* page gets an error notification (a stream that completes gets none),
\* and no generation is started again: the handler returns.
C15_EngineErrorKeepsPartial ==
    /\ turn[1] = "except" => response_text[1] = Flatten(gen[1].frags)
    /\ (turn[1] = "idle" /\ lastEnd = "error")
          => /\ notice[1] = "error"
             /\ gen[1] = NoGen
             /\ ~is_generating[1]
    /\ (turn[1] = "idle" /\ lastEnd = "completed") => notice[1] = "none"

\* C15's case: the engine raised after some text had been yielded.
C15_Witness ==
    /\ turn[1] = "except"
    /\ Len(gen[1].frags) >= 2
    /\ response_text[1] # <<>>

\* C16: a stream yields one fragment per token and at most max_length
\* minus the number of input tokens of them, yields nothing once the
\* engine is done, and ends.
C16_StreamsAreFinite ==
    /\ [](\A p \in Pages :
            Streaming(p) =>
               /\ Len(gen[p].frags) = Len(gen[p].new)
               /\ Len(gen[p].frags)
                     <= gen[p].max_length - Len(gen[p].input_tokens))
    /\ [][(Streaming(1) /\ IsDone(gen[1])) => gen'[1] = NoGen]_vars
    /\ (Streaming(1) ~> ~Streaming(1))

\* C16's case: the stream ended by reaching max_length, no end of sequence.
C16_Witness ==
    /\ Streaming(1)
    /\ ~gen[1].eos
    /\ gen[1].new # <<>>
    /\ Len(gen[1].input_tokens) + Len(gen[1].new) = gen[1].max_length

\* C10: at most one generation stream is in flight at any time.
C10_OneStreamInFlight ==
    Cardinality({p \in Pages : Streaming(p)}) <= 1

---------------------------------------------------------------------------
(* _chunk_text called on its own, for every text length, chunk size and    *)
(* overlap within the bounds (0 <= overlap < chunk_size).                  *)

TextOfLen(n) == [i \in 1 .. n |-> 10000 + i]

call_chunk_text(n, chunk_size, overlap) ==
    /\ ck' = [text |-> TextOfLen(n), chunk_size |-> chunk_size,
              overlap |-> overlap,
              out |-> _chunk_text(TextOfLen(n), chunk_size, overlap)]
    /\ UNCHANGED <<chunks, index, obsVars, rag_active, is_loaded,
                   is_generating, up, turn, qt, g, genVars, prompt, cf, cl>>

NextChunk ==
    \E n \in 0 .. MaxTextLen, chunk_size \in 1 .. MaxChunkSize :
       \E overlap \in 0 .. chunk_size - 1 :
          call_chunk_text(n, chunk_size, overlap)

SpecChunk == InitConc /\ [][NextChunk]_vars

Called == ck.chunk_size > 0

\* C11: a text shorter than chunk_size (also one longer than chunk_size -
\* overlap) gives exactly one chunk, the whole text; the empty text gives
\* no chunk.
C11_ShortTextOneChunk ==
    Called =>
       /\ ck.text = <<>> => ck.out = <<>>
       /\ (ck.text # <<>> /\ Len(ck.text) < ck.chunk_size)
             => ck.out = <<ck.text>>

\* The first chunk followed by every later chunk without its first
\* overlap characters (chunk[overlap:]).
RECURSIVE StripAndJoin(_, _)
StripAndJoin(rest, overlap) ==
    IF rest = <<>> THEN <<>>
    ELSE PyFrom(Head(rest), overlap) \o StripAndJoin(Tail(rest), overlap)

Reconstruct(out, overlap) ==
    IF out = <<>> THEN <<>> ELSE Head(out) \o StripAndJoin(Tail(out), overlap)

\* C12: the first chunk followed by the later chunks, each without its
\* first overlap characters, is the text: nothing lost, nothing twice.
C12_ChunksReconstructText ==
    Called => Reconstruct(ck.out, ck.overlap) = ck.text

\* C12's case: overlapping windows, at least three of them, the last one
\* cut short by the end of the text.
C12_Witness ==
    /\ Called
    /\ ck.overlap > 0
    /\ Len(ck.out) >= 3
    /\ Len(ck.out[Len(ck.out)]) < ck.chunk_size

\* C19: chunk i (from 0) is text[i*(size-overlap) : i*(size-overlap)+size],
\* and every chunk but the last has exactly size characters.
C19_WindowsFullButLast ==
    Called =>
       \A i \in 1 .. Len(ck.out) :
          LET start == (i - 1) * (ck.chunk_size - ck.overlap)
          IN  /\ ck.out[i] = PySlice(ck.text, start, start + ck.chunk_size)
              /\ i < Len(ck.out) => Len(ck.out[i]) = ck.chunk_size

---------------------------------------------------------------------------
(* The loop of _chunk_text, one iteration at a time.                       *)

NextStartIgnoringOverlap(start, chunk_size, overlap) == start + chunk_size

\* start += chunk_size - overlap (line 36)
NextStart(start, chunk_size, overlap) == start + chunk_size - overlap

\* lines 26-30: chunks = [], start = 0, text_len = len(text)
chunk_begin(n, chunk_size, overlap) ==
    /\ cl.pc # "loop"
    /\ cl' = [pc |-> "loop", text |-> TextOfLen(n), chunk_size |-> chunk_size,
              overlap |-> overlap, start |-> 0, chunks |-> <<>>]
    /\ UNCHANGED <<chunks, index, obsVars, rag_active, is_loaded,
                   is_generating, up, turn, qt, g, genVars, prompt, ck, cf>>

\* lines 32-36: one iteration of the while loop
chunk_iterate ==
    /\ cl.pc = "loop"
    /\ cl.start < Len(cl.text)
    /\ cl' = [cl EXCEPT
                !.chunks = Append(@, PySlice(cl.text, cl.start,
                                             cl.start + cl.chunk_size)),
                !.start = NextStart(cl.start, cl.chunk_size, cl.overlap)]
    /\ UNCHANGED <<chunks, index, obsVars, rag_active, is_loaded,
                   is_generating, up, turn, qt, g, genVars, prompt, ck, cf>>

\* lines 32 and 38: the loop condition is false, return chunks
chunk_return ==
    /\ cl.pc = "loop"
    /\ ~(cl.start < Len(cl.text))
    /\ cl' = [cl EXCEPT !.pc = "returned"]
    /\ UNCHANGED <<chunks, index, obsVars, rag_active, is_loaded,
                   is_generating, up, turn, qt, g, genVars, prompt, ck, cf>>

NextChunkLoop ==
    \/ \E n \in 0 .. MaxTextLen, chunk_size \in 1 .. MaxChunkSize :
          \E overlap \in 0 .. chunk_size - 1 :
             chunk_begin(n, chunk_size, overlap)
    \/ chunk_iterate
    \/ chunk_return

SpecChunkLoop == InitConc /\ [][NextChunkLoop]_vars

\* The thread in _chunk_text keeps running.
SpecChunkLoopFair ==
    /\ SpecChunkLoop
    /\ WF_vars(chunk_iterate)
    /\ WF_vars(chunk_return)

CeilDiv(n, d) == (n + d - 1) \div d

\* C23: the loop ends; it returns ceil(n / (chunk_size - overlap)) chunks,
\* none empty; start grows at every iteration.
C23_LoopEndsWithCeilChunks ==
    /\ [](cl.pc = "returned" =>
            /\ Len(cl.chunks)
                  = CeilDiv(Len(cl.text), cl.chunk_size - cl.overlap)
            /\ \A i \in 1 .. Len(cl.chunks) : cl.chunks[i] # <<>>
            /\ cl.chunks = _chunk_text(cl.text, cl.chunk_size, cl.overlap))
    /\ [][(cl.pc = "loop" /\ cl'.pc = "loop") => cl'.start > cl.start]_vars
    /\ (cl.pc = "loop" ~> cl.pc = "returned")

\* C23's case: a call that returned after several iterations with the
\* smallest step, and a number of chunks that needed rounding up.
C23_Witness ==
    /\ cl.pc = "returned"
    /\ cl.overlap > 0
    /\ Len(cl.chunks) >= 3
    /\ Len(cl.text) % (cl.chunk_size - cl.overlap) # 0

---------------------------------------------------------------------------
(* The conversational test made on its own, on every text over a small     *)
(* alphabet and on sample sentences.                                       *)

FilterChars == {32, 33, 63, 72, 104, 105}       \* ' ', '!', '?', 'H', 'h', 'i'
SampleTexts ==
    { <<104, 101, 108, 108, 111>>,                      \* hello
      <<32, 32, 72, 73, 33, 32, 32>>,                   \* "  HI!  "
      <<116, 104, 97, 110, 107, 115, 46>>,              \* thanks.
      <<119, 104, 97, 116, 32, 105, 115, 32, 116, 104, 101, 32, 114, 101,
        102, 117, 110, 100, 32, 112, 111, 108, 105, 99, 121>> }
                                            \* what is the refund policy
FilterTexts ==
    SampleTexts \cup UNION {[1 .. n -> FilterChars] : n \in 0 .. MaxInputLen}

call_is_conversational(text) ==
    /\ cf' = [text |-> text, verdict |-> is_conversational(text)]
    /\ UNCHANGED <<chunks, index, obsVars, rag_active, is_loaded,
                   is_generating, up, turn, qt, g, genVars, prompt, ck, cl>>

NextFilter == \E text \in FilterTexts : call_is_conversational(text)

SpecFilter == InitConc /\ [][NextFilter]_vars

\* C18: the test is true exactly when the text, trimmed of surrounding
\* whitespace and of trailing '!', '.', ',', '?' and lower-cased, is one of
\* hi, hello, hey, thanks, thank you, bye, goodbye, ok, okay.
C18_ConversationalIffInSet ==
    cf.verdict = DesignConversational(cf.text)

============================================================================
